---- MODULE Spec2Model ----
(***************************************************************************)
(* State-machine model of function_app.py: the HTTP handler ask_ai and its *)
(* citation reconciliation (dedup, marker rewrite, reference list, orphan  *)
(* removal, footnote block).                                               *)
(*                                                                         *)
(* Text is a sequence of one-character strings.  The fixed document URL is *)
(* a single opaque element of such a sequence.  Optional JSON values are   *)
(* tagged records: [t |-> "none"], [t |-> "str", s |-> chars],             *)
(* [t |-> "int", n |-> number].                                            *)
(***************************************************************************)
EXTENDS Integers, Sequences, FiniteSets, TLC

VARIABLES
    pc,                 \* position of the handler in ask_ai
    env,                \* os.environ restricted to REQUIRED_ENV_VARS
    req,                \* the HTTP request body as received
    message,            \* req_body.get("message")
    chat_history,       \* req_body.get("history", [])
    sanitized_history,  \* history reduced to {role, content}
    calls,              \* number of requests.post calls made
    ai_response,        \* what requests.post returned
    raw_reply,          \* choices[0].message.content as received
    assistant_reply,    \* the answer text being rewritten
    citations,          \* choices[0].message.context.citations
    confidence,         \* choices[0].message.confidence
    unique_docs,        \* first citation of each document key
    doc_key_map,        \* document key -> assigned citation number
    rewritten_reply,    \* assistant_reply after replace_citations
    references,         \* the references array of the response
    orphaned_reply,     \* assistant_reply after remove_orphan_citations
    responses           \* HttpResponses returned by the handler

vars == <<pc, env, req, message, chat_history, sanitized_history, calls,
          ai_response, raw_reply, assistant_reply, citations, confidence,
          unique_docs, doc_key_map, rewritten_reply, references,
          orphaned_reply, responses>>

(***************************************************************************)
(* Bounds of the model.                                                    *)
(***************************************************************************)
MaxLen == 6         \* longest answer text explored exhaustively
MaxDocs == 3        \* longest citation list of the deduplication inputs

(***************************************************************************)
(* JSON values.                                                            *)
(***************************************************************************)
None == [t |-> "none"]
StrV(s) == [t |-> "str", s |-> s]
IntV(n) == [t |-> "int", n |-> n]

\* Python truthiness of an optional str/int value.
Truthy(v) ==
    CASE v.t = "none" -> FALSE
      [] v.t = "str" -> v.s # <<>>
      [] v.t = "int" -> v.n # 0

(***************************************************************************)
(* Characters and strings.                                                 *)
(***************************************************************************)
Digits == <<"0", "1", "2", "3", "4", "5", "6", "7", "8", "9">>
DigitSet == {Digits[i] : i \in 1..10}
Whitespace == {" ", "\n", "\t"}

IsDigit(c) == c \in DigitSet

DigitVal(c) == (CHOOSE i \in 1..10 : Digits[i] = c) - 1

\* int(x) of a digit string.
RECURSIVE ToInt(_)
ToInt(ds) ==
    IF ds = <<>> THEN 0
    ELSE 10 * ToInt(SubSeq(ds, 1, Len(ds) - 1)) + DigitVal(ds[Len(ds)])

\* str(n) of an integer.
RECURSIVE NatStr(_)
NatStr(n) ==
    IF n < 10 THEN <<Digits[n + 1]>>
    ELSE NatStr(n \div 10) \o <<Digits[(n % 10) + 1]>>

IntStr(n) == IF n < 0 THEN <<"-">> \o NatStr(-n) ELSE NatStr(n)

\* str.isdigit(): non-empty and every character a digit.
StrIsDigit(s) == s # <<>> /\ \A i \in 1..Len(s) : IsDigit(s[i])

Upper == <<"A", "B", "H", "I", "E", "L", "O", "Y", "T", "W">>
Lower == <<"a", "b", "h", "i", "e", "l", "o", "y", "t", "w">>

LowerChar(c) ==
    IF \E i \in 1..Len(Upper) : Upper[i] = c
    THEN Lower[CHOOSE i \in 1..Len(Upper) : Upper[i] = c]
    ELSE c

\* str.lower()
ToLower(s) == [i \in 1..Len(s) |-> LowerChar(s[i])]

\* str.strip()
RECURSIVE LStrip(_)
LStrip(s) ==
    IF s # <<>> /\ s[1] \in Whitespace THEN LStrip(Tail(s)) ELSE s

RECURSIVE RStrip(_)
RStrip(s) ==
    IF s # <<>> /\ s[Len(s)] \in Whitespace
    THEN RStrip(SubSeq(s, 1, Len(s) - 1))
    ELSE s

Strip(s) == RStrip(LStrip(s))

(***************************************************************************)
(* The marker grammar \[(\d+)\] and re.sub over it.                        *)
(***************************************************************************)
\* Index of the last digit of the maximal digit run starting at i (i - 1
\* when text[i] is no digit).
RECURSIVE DigitRunEnd(_, _)
DigitRunEnd(text, i) ==
    IF i <= Len(text) /\ IsDigit(text[i]) THEN DigitRunEnd(text, i + 1)
    ELSE i - 1

\* End index of a match of \[(\d+)\] starting at i, or 0 when none starts
\* there.
MatchEnd(text, i) ==
    IF i <= Len(text) /\ text[i] = "["
    THEN LET e == DigitRunEnd(text, i + 1)
         IN  IF e >= i + 1 /\ e + 1 <= Len(text) /\ text[e + 1] = "]"
             THEN e + 1
             ELSE 0
    ELSE 0

\* The leftmost non-overlapping matches of \[(\d+)\] from pos on, each as
\* <<start, end>>.
RECURSIVE FindAll(_, _)
FindAll(text, pos) ==
    IF pos > Len(text) THEN <<>>
    ELSE LET e == MatchEnd(text, pos)
         IN  IF e = 0 THEN FindAll(text, pos + 1)
             ELSE <<<<pos, e>>>> \o FindAll(text, e + 1)

\* m.group(1) of a match.
Group1(text, m) == SubSeq(text, m[1] + 1, m[2] - 1)

\* re.findall(r'\[(\d+)\]', text)
FindDigits(text) ==
    LET ms == FindAll(text, 1)
    IN  [k \in 1..Len(ms) |-> Group1(text, ms[k])]

\* text with match ms[k] replaced by repl[k], for k from the given index on;
\* from is the first index of text not yet copied.
RECURSIVE Splice(_, _, _, _, _)
Splice(text, ms, repl, k, from) ==
    IF k > Len(ms) THEN SubSeq(text, from, Len(text))
    ELSE SubSeq(text, from, ms[k][1] - 1) \o repl[k]
         \o Splice(text, ms, repl, k + 1, ms[k][2] + 1)

Marker(ds) == <<"[">> \o ds \o <<"]">>

(***************************************************************************)
(* Program constants.                                                      *)
(***************************************************************************)
REQUIRED_ENV_VARS ==
    {"AI_FOUND_ENDPOINT", "AI_FOUND_API_KEY", "SEARCH_ENDPOINT",
     "SEARCH_INDEX_NAME", "SEARCH_KEY"}

\* The pre-signed document URL, one opaque element of a text.
HARDCODED_DOCUMENT_URL == <<"<HARDCODED_DOCUMENT_URL>">>

\* "wipo-patent-drafting-manual"
Sentinel ==
    <<"w", "i", "p", "o", "-", "p", "a", "t", "e", "n", "t", "-", "d", "r",
      "a", "f", "t", "i", "n", "g", "-", "m", "a", "n", "u", "a", "l">>

DefaultTitle == <<"WIPO Patent Drafting Manual">>

GreetingAnswer ==
    <<"Hello! How can I assist you with the WIPO Patent Drafting Manual or patent-related questions today?">>
LowConfidenceAnswer ==
    <<"I'm not confident in the answer. Please refine or rephrase your question for better results.">>
NoCitationsAnswer ==
    <<"No relevant information was found. Please contact sulaiman@test.com for further assistance.">>

\* confidence values are held in hundredths: 0.5 is 50, the default 1.0 is 100
ConfidenceThreshold == 50
DefaultConfidence == 100

greetings ==
    {<<"h", "e", "l", "l", "o">>, <<"h", "i">>, <<"h", "e", "y">>,
     <<"g", "r", "e", "e", "t", "i", "n", "g", "s">>}

(***************************************************************************)
(* Citation reconciliation.                                                *)
(***************************************************************************)
\* doc.get(k, "") of a str-or-absent field
StrOrEmpty(v) == IF v.t = "str" THEN v.s ELSE <<>>

\* doc_key comparing urls and titles as written, without .lower()
doc_key_CaseSensitive(doc) ==
    LET u == IF Truthy(doc.url) THEN doc.url.s ELSE <<>>
        t == StrOrEmpty(doc.title)
    IN  IF u # <<>> THEN u
        ELSE IF t # <<>> THEN t
        ELSE Sentinel


doc_key(doc) ==
    LET u == ToLower(IF Truthy(doc.url) THEN doc.url.s ELSE <<>>)
        t == ToLower(StrOrEmpty(doc.title))
    IN  IF u # <<>> THEN u
        ELSE IF t # <<>> THEN t
        ELSE Sentinel

\* The loop of lines 165-169, from citation i on: <<unique_docs, doc_key_map>>.
RECURSIVE DedupFrom(_, _, _, _)
DedupFrom(cits, i, docs, map) ==
    IF i > Len(cits) THEN <<docs, map>>
    ELSE LET key == doc_key(cits[i])
         IN  IF key # <<>> /\ key \notin DOMAIN map
             THEN DedupFrom(cits, i + 1, Append(docs, cits[i]),
                            map @@ (key :> Len(docs) + 1))
             ELSE DedupFrom(cits, i + 1, docs, map)

EmptyMap == [k \in {} |-> 0]

Deduplicate(cits) == DedupFrom(cits, 1, <<>>, EmptyMap)

\* orig_to_unique of replace_citations: str(idx + 1) -> str(doc_key_map[key])
OrigToUnique(cits, map) ==
    LET ok == {i \in 1..Len(cits) : doc_key(cits[i]) \in DOMAIN map}
    IN  [o \in {NatStr(i) : i \in ok} |->
            NatStr(map[doc_key(cits[CHOOSE i \in ok : NatStr(i) = o])])]

\* replace_citations looking a rewritten number up again
replace_citations_Chained(text, cits, map) ==
    LET o2u == OrigToUnique(cits, map)
        Once(d) == IF d \in DOMAIN o2u THEN o2u[d] ELSE d
        ms == FindAll(text, 1)
        repl == [k \in 1..Len(ms) |-> Marker(Once(Once(Group1(text, ms[k]))))]
    IN  Splice(text, ms, repl, 1, 1)


replace_citations(text, cits, map) ==
    LET o2u == OrigToUnique(cits, map)
        ms == FindAll(text, 1)
        repl == [k \in 1..Len(ms) |->
                    LET orig == Group1(text, ms[k])
                    IN  Marker(IF orig \in DOMAIN o2u THEN o2u[orig] ELSE orig)]
    IN  Splice(text, ms, repl, 1, 1)

\* doc.get("page") or doc.get("pageNumber") or doc.get("chunk_id")
PageOf(doc) ==
    IF Truthy(doc.page) THEN doc.page
    ELSE IF Truthy(doc.pageNumber) THEN doc.pageNumber
    ELSE doc.chunk_id

\* str(page)
PageStr(page) == IF page.t = "int" THEN IntStr(page.n) ELSE page.s

PageUsable(page) ==
    Truthy(page) /\ page.t \in {"int", "str"} /\ StrIsDigit(PageStr(page))

PageSuffix == <<"#", "p", "a", "g", "e", "=">>

\* the url of a reference, lines 191-194
ReferenceUrl(doc) ==
    LET page == PageOf(doc)
    IN  IF PageUsable(page)
        THEN HARDCODED_DOCUMENT_URL \o PageSuffix \o PageStr(page)
        ELSE HARDCODED_DOCUMENT_URL

BuildReferences(docs) ==
    [i \in 1..Len(docs) |->
        [index |-> i,
         title |-> IF docs[i].title.t = "none" THEN DefaultTitle
                   ELSE docs[i].title.s,
         url |-> ReferenceUrl(docs[i])]]

_generate_blob_url(doc) ==
    LET page == PageOf(doc)
    IN  IF PageUsable(page)
        THEN HARDCODED_DOCUMENT_URL \o PageSuffix \o PageStr(page)
        ELSE HARDCODED_DOCUMENT_URL

ValidCitationNumbers(refs) == {NatStr(refs[i].index) : i \in 1..Len(refs)}

\* OrphanRepl comparing the numbers instead of the digit strings
OrphanRepl_Numeric(ds, valid_numbers) ==
    IF \E v \in valid_numbers : ToInt(v) = ToInt(ds) THEN Marker(ds) ELSE <<>>

\* the replacement remove_orphan_citations gives a match with digits ds
OrphanRepl(ds, valid_numbers) ==
    IF ds \in valid_numbers THEN Marker(ds) ELSE <<>>

remove_orphan_citations(text, valid_numbers) ==
    LET ms == FindAll(text, 1)
        repl == [k \in 1..Len(ms) |->
                    OrphanRepl(Group1(text, ms[k]), valid_numbers)]
    IN  Splice(text, ms, repl, 1, 1)

\* The matches of \[(\d+)\]\[(\d+)\] from pos on, each as <<start, mid, end>>
\* with mid the end of the first marker.
RECURSIVE FindAllPairs(_, _)
FindAllPairs(text, pos) ==
    IF pos > Len(text) THEN <<>>
    ELSE LET e1 == MatchEnd(text, pos)
             e2 == IF e1 = 0 THEN 0 ELSE MatchEnd(text, e1 + 1)
         IN  IF e2 = 0 THEN FindAllPairs(text, pos + 1)
             ELSE <<<<pos, e1, e2>>>> \o FindAllPairs(text, e2 + 1)

\* re.sub(r'\[(\d+)\]\[(\d+)\]', r'[\1], [\2]', answer)
JoinPairs(text) ==
    LET ps == FindAllPairs(text, 1)
        ms == [k \in 1..Len(ps) |-> <<ps[k][1], ps[k][3]>>]
        repl == [k \in 1..Len(ps) |->
                    SubSeq(text, ps[k][1], ps[k][2]) \o <<",", " ">>
                    \o SubSeq(text, ps[k][2] + 1, ps[k][3])]
    IN  Splice(text, ms, repl, 1, 1)

\* The matches of (\[\d+\])(?=\[\d+\]) from pos on: a marker directly
\* followed by a marker; only the first is consumed.
RECURSIVE FindAllFollowed(_, _)
FindAllFollowed(text, pos) ==
    IF pos > Len(text) THEN <<>>
    ELSE LET e1 == MatchEnd(text, pos)
             e2 == IF e1 = 0 THEN 0 ELSE MatchEnd(text, e1 + 1)
         IN  IF e2 = 0 THEN FindAllFollowed(text, pos + 1)
             ELSE <<<<pos, e1>>>> \o FindAllFollowed(text, e1 + 1)

\* re.sub(r'(\[\d+\])(?=\[\d+\])', r'\1, ', answer)
SeparateFollowed(text) ==
    LET ms == FindAllFollowed(text, 1)
        repl == [k \in 1..Len(ms) |->
                    SubSeq(text, ms[k][1], ms[k][2]) \o <<",", " ">>]
    IN  Splice(text, ms, repl, 1, 1)

NormalizeAdjacent(answer) == SeparateFollowed(JoinPairs(answer))

\* set(re.findall(r'\[(\d+)\]', answer))
UsedRefs(answer) ==
    LET ds == FindDigits(answer) IN {ds[k] : k \in 1..Len(ds)}

\* The orders sorted(used_refs, key=int) can give: ascending by value; refs
\* of equal value (leading zeros) come in the set's iteration order, which
\* the hash seed decides.
SortedOrders(refs) ==
    LET n == Cardinality(refs)
    IN  {o \in [1..n -> refs] :
            /\ \A i, j \in 1..n : i < j => o[i] # o[j]
            /\ \A i, j \in 1..n : i < j => ToInt(o[i]) <= ToInt(o[j])}

\* one line of references_section
FootnoteLine(ref, docs) ==
    LET idx == ToInt(ref) - 1
    IN  IF 0 <= idx /\ idx < Len(docs)
        THEN Marker(ref) \o <<":", " ">> \o _generate_blob_url(docs[idx + 1])
             \o <<"\n">>
        ELSE Marker(ref) \o <<":", " ", "#", "\n">>

RECURSIVE ReferencesSection(_, _, _)
ReferencesSection(order, docs, k) ==
    IF k > Len(order) THEN <<>>
    ELSE FootnoteLine(order[k], docs) \o ReferencesSection(order, docs, k + 1)

\* _append_reference_links with the iteration order of used_refs given
AppendReferenceLinks(answer, docs, order) ==
    IF docs = <<>> THEN answer
    ELSE Strip(NormalizeAdjacent(answer)) \o <<"\n", "\n">>
         \o Strip(ReferencesSection(order, docs, 1)) \o <<"\n">>

(***************************************************************************)
(* Responses.                                                              *)
(***************************************************************************)
HttpResponse(body, status_code) ==
    [body |-> body, status_code |-> status_code,
     mimetype |-> "application/json"]

\* _error_response; extra is a record merged into the payload
_error_response(msg, status_code, extra) ==
    HttpResponse([error |-> msg] @@ extra, status_code)

NoExtra == [k \in {} |-> 0]

\* the except clause of ask_ai, for an exception named exc
UnhandledException(exc) ==
    _error_response("Unhandled exception", 500,
                    [message |-> exc, trace |-> exc])

UserTurn(msg) == [role |-> StrV(<<"user">>), content |-> msg]
AssistantTurn(text) == [role |-> StrV(<<"assistant">>), content |-> StrV(text)]

\* the success payload: answer, history extended by the two turns, references
AnswerResponse(answer, history, msg, refs) ==
    HttpResponse([answer |-> answer,
                  history |-> history \o <<UserTurn(msg), AssistantTurn(answer)>>,
                  references |-> refs], 200)

\* return resp: the handler ends
Return(resp) ==
    /\ responses' = Append(responses, resp)
    /\ pc' = "done"

(***************************************************************************)
(* Request handling up to the outbound call.                               *)
(***************************************************************************)
\* lines 41-43: req.get_json() and the two .get calls
GetJson ==
    /\ pc = "get_json"
    /\ IF req.kind = "invalid_json"
       THEN /\ Return(UnhandledException("ValueError"))
            /\ UNCHANGED <<message, chat_history>>
       ELSE IF req.kind # "object"
       THEN /\ Return(UnhandledException("AttributeError"))
            /\ UNCHANGED <<message, chat_history>>
       ELSE /\ message' = req.message
            /\ chat_history' = IF req.history.t = "none"
                               THEN [t |-> "list", items |-> <<>>]
                               ELSE req.history
            /\ pc' = "check_message"
            /\ UNCHANGED responses
    /\ UNCHANGED <<env, req, sanitized_history, calls, ai_response, raw_reply,
                   assistant_reply, citations, confidence, unique_docs,
                   doc_key_map, rewritten_reply, references, orphaned_reply>>

\* lines 45-46
CheckMessage ==
    /\ pc = "check_message"
    /\ IF ~Truthy(message)
       THEN Return(_error_response("Missing 'message' in request body", 400,
                                   NoExtra))
       ELSE /\ pc' = "check_env"
            /\ UNCHANGED responses
    /\ UNCHANGED <<env, req, message, chat_history, sanitized_history, calls,
                   ai_response, raw_reply, assistant_reply, citations,
                   confidence, unique_docs, doc_key_map, rewritten_reply,
                   references, orphaned_reply>>

\* MissingEnv with SEARCH_KEY left out of the list
MissingEnv_Partial(e) ==
    {key \in REQUIRED_ENV_VARS \ {"SEARCH_KEY"} : ~Truthy(e[key])}

\* [key for key in REQUIRED_ENV_VARS if not os.getenv(key)]
MissingEnv(e) == {key \in REQUIRED_ENV_VARS : ~Truthy(e[key])}

\* lines 49-51
CheckEnv ==
    /\ pc = "check_env"
    /\ IF MissingEnv(env) # {}
       THEN Return(_error_response("Missing environment variable(s)", 500,
                                   [missing |-> MissingEnv(env)]))
       ELSE /\ pc' = "sanitize"
            /\ UNCHANGED responses
    /\ UNCHANGED <<env, req, message, chat_history, sanitized_history, calls,
                   ai_response, raw_reply, assistant_reply, citations,
                   confidence, unique_docs, doc_key_map, rewritten_reply,
                   references, orphaned_reply>>

\* the comprehension of lines 54-58 over a list
RECURSIVE Sanitize(_)
Sanitize(items) ==
    IF items = <<>> THEN <<>>
    ELSE LET msg == items[1]
         IN  (IF msg.dict /\ msg.role.t # "none" /\ msg.content.t # "none"
              THEN <<[role |-> msg.role, content |-> msg.content]>>
              ELSE <<>>) \o Sanitize(Tail(items))

\* lines 54-65; iterating a history that is no list raises TypeError
SanitizeHistory ==
    /\ pc = "sanitize"
    /\ IF chat_history.t # "list"
       THEN /\ Return(UnhandledException("TypeError"))
            /\ UNCHANGED sanitized_history
       ELSE /\ sanitized_history' = Sanitize(chat_history.items)
            /\ pc' = "greeting"
            /\ UNCHANGED responses
    /\ UNCHANGED <<env, req, message, chat_history, calls, ai_response,
                   raw_reply, assistant_reply, citations, confidence,
                   unique_docs, doc_key_map, rewritten_reply, references,
                   orphaned_reply>>

\* IsGreeting without .strip()
IsGreeting_NoStrip(msg) == ToLower(msg) \in greetings

\* message.strip().lower() in greetings
IsGreeting(msg) == ToLower(Strip(msg)) \in greetings

\* lines 68-81; .strip() on a message that is no string raises AttributeError
CheckGreeting ==
    /\ pc = "greeting"
    /\ IF message.t # "str"
       THEN Return(UnhandledException("AttributeError"))
       ELSE IF IsGreeting(message.s)
       THEN Return(AnswerResponse(GreetingAnswer, sanitized_history, message,
                                  <<>>))
       ELSE /\ pc' = "post"
            /\ UNCHANGED responses
    /\ UNCHANGED <<env, req, message, chat_history, sanitized_history, calls,
                   ai_response, raw_reply, assistant_reply, citations,
                   confidence, unique_docs, doc_key_map, rewritten_reply,
                   references, orphaned_reply>>

(***************************************************************************)
(* The outbound call and the two fallbacks.                                *)
(***************************************************************************)
\* a citation of the completion service
Doc(url, title, page, pageNumber, chunk_id) ==
    [url |-> url, title |-> title, page |-> page, pageNumber |-> pageNumber,
     chunk_id |-> chunk_id]

\* a response of the completion service; json is "ok", "not_json" (the body
\* does not parse) or "no_choices" (a field of lines 121-122 is missing)
UpstreamResponse(status_code, text, json, content, cits, conf) ==
    [kind |-> "response", status_code |-> status_code, text |-> text,
     json |-> json, content |-> content, citations |-> cits,
     confidence |-> conf]

OkResponse(content, cits, conf) ==
    UpstreamResponse(200, <<"{...}">>, "ok", content, cits, conf)

DocA == Doc(StrV(<<"A">>), StrV(<<"T">>), StrV(<<"1", "2">>), None, None)
DocALower == Doc(StrV(<<"a">>), None, None, None, StrV(<<"3">>))
DocB == Doc(StrV(<<"B">>), None, None, None, None)
DocTitleOnly == Doc(None, StrV(<<"M">>), StrV(<<"1", "2">>), None, None)

AnswerSamples ==
    {<<"S", "e", "e", " ", "[", "1", "]", " ", "a", "n", "d", " ", "[", "3", "]", ".">>,
     <<"N", "o", " ", "s", "o", "u", "r", "c", "e", "s", " ", "[", "1", "]", ".">>,
     <<"[", "1", "]", "[", "2", "]">>,
     <<" ", "[", "2", "]", " ", "x", "[", "9", "]", "[", "0", "1", "]", "\n">>}

CitationSamples ==
    {None,
     [t |-> "list", items |-> <<>>],
     [t |-> "list", items |-> <<DocA, DocB, DocALower>>],
     [t |-> "list", items |-> <<DocTitleOnly>>],
     [t |-> "list", items |-> <<DocB, DocA>>]}

\* confidence in hundredths; a string stands for any non-numeric value
ConfidenceSamples == {None, IntV(30), IntV(50), IntV(90), StrV(<<"h">>)}

UpstreamOutcomes ==
    {[kind |-> "network_error"]}
    \cup {UpstreamResponse(st, <<"upstream body">>, "ok", <<>>, None, None) :
            st \in {429, 503}}
    \cup {UpstreamResponse(200, <<"...">>, j, <<>>, None, None) :
            j \in {"not_json", "no_choices"}}
    \cup {OkResponse(a, c, f) :
            a \in AnswerSamples, c \in CitationSamples,
            f \in ConfidenceSamples}

\* lines 83-114: requests.post, which returns a response or raises
PostCall ==
    /\ pc = "post"
    /\ calls' = calls + 1
    /\ \E outcome \in UpstreamOutcomes :
          IF outcome.kind = "network_error"
          THEN /\ Return(UnhandledException("ConnectionError"))
               /\ UNCHANGED ai_response
          ELSE /\ ai_response' = outcome
               /\ pc' = "check_status"
               /\ UNCHANGED responses
    /\ UNCHANGED <<env, req, message, chat_history, sanitized_history,
                   raw_reply, assistant_reply, citations, confidence,
                   unique_docs, doc_key_map, rewritten_reply, references,
                   orphaned_reply>>

\* CheckStatus repeating the call once after a non-200 status
CheckStatus_Retry ==
    /\ pc = "check_status"
    /\ IF ai_response.status_code # 200 /\ calls < 2
       THEN /\ pc' = "post"
            /\ UNCHANGED responses
       ELSE IF ai_response.status_code # 200
       THEN Return(_error_response("AI service request failed",
                                   ai_response.status_code,
                                   [message |-> ai_response.text]))
       ELSE /\ pc' = "parse"
            /\ UNCHANGED responses
    /\ UNCHANGED <<env, req, message, chat_history, sanitized_history, calls,
                   ai_response, raw_reply, assistant_reply, citations,
                   confidence, unique_docs, doc_key_map, rewritten_reply,
                   references, orphaned_reply>>

\* lines 116-118
CheckStatus ==
    /\ pc = "check_status"
    /\ IF ai_response.status_code # 200
       THEN Return(_error_response("AI service request failed",
                                   ai_response.status_code,
                                   [message |-> ai_response.text]))
       ELSE /\ pc' = "parse"
            /\ UNCHANGED responses
    /\ UNCHANGED <<env, req, message, chat_history, sanitized_history, calls,
                   ai_response, raw_reply, assistant_reply, citations,
                   confidence, unique_docs, doc_key_map, rewritten_reply,
                   references, orphaned_reply>>

\* lines 120-125: .json() and the reads of content, citations, confidence
ParseResult ==
    /\ pc = "parse"
    /\ IF ai_response.json = "not_json"
       THEN /\ Return(UnhandledException("JSONDecodeError"))
            /\ UNCHANGED <<raw_reply, assistant_reply, citations, confidence>>
       ELSE IF ai_response.json = "no_choices"
       THEN /\ Return(UnhandledException("KeyError"))
            /\ UNCHANGED <<raw_reply, assistant_reply, citations, confidence>>
       ELSE /\ raw_reply' = ai_response.content
            /\ assistant_reply' = ai_response.content
            /\ citations' = IF ai_response.citations.t = "none" THEN <<>>
                            ELSE ai_response.citations.items
            /\ confidence' = IF ai_response.confidence.t = "none"
                             THEN IntV(DefaultConfidence)
                             ELSE ai_response.confidence
            /\ pc' = "confidence"
            /\ UNCHANGED responses
    /\ UNCHANGED <<env, req, message, chat_history, sanitized_history, calls,
                   ai_response, unique_docs, doc_key_map, rewritten_reply,
                   references, orphaned_reply>>

\* LowConfidence with <= for <
LowConfidence_Inclusive(conf) == conf.n <= ConfidenceThreshold

\* confidence < 0.5
LowConfidence(conf) == conf.n < ConfidenceThreshold

\* lines 126-138; comparing a non-number with 0.5 raises TypeError
CheckConfidence ==
    /\ pc = "confidence"
    /\ IF confidence.t # "int"
       THEN Return(UnhandledException("TypeError"))
       ELSE IF LowConfidence(confidence)
       THEN Return(AnswerResponse(LowConfidenceAnswer, sanitized_history,
                                  message, <<>>))
       ELSE /\ pc' = "citations"
            /\ UNCHANGED responses
    /\ UNCHANGED <<env, req, message, chat_history, sanitized_history, calls,
                   ai_response, raw_reply, assistant_reply, citations,
                   confidence, unique_docs, doc_key_map, rewritten_reply,
                   references, orphaned_reply>>

\* CheckCitations without the fallback: an empty list goes on to line 159
CheckCitations_NoGate ==
    /\ pc = "citations"
    /\ pc' = "dedup"
    /\ UNCHANGED <<env, req, message, chat_history, sanitized_history, calls,
                   ai_response, raw_reply, assistant_reply, citations,
                   confidence, unique_docs, doc_key_map, rewritten_reply,
                   references, orphaned_reply, responses>>

\* lines 141-153
CheckCitations ==
    /\ pc = "citations"
    /\ IF citations = <<>>
       THEN Return(AnswerResponse(NoCitationsAnswer, sanitized_history,
                                  message, <<>>))
       ELSE /\ pc' = "dedup"
            /\ UNCHANGED responses
    /\ UNCHANGED <<env, req, message, chat_history, sanitized_history, calls,
                   ai_response, raw_reply, assistant_reply, citations,
                   confidence, unique_docs, doc_key_map, rewritten_reply,
                   references, orphaned_reply>>

(***************************************************************************)
(* Reconciliation, lines 159-221.                                          *)
(***************************************************************************)
\* lines 159-169
DeduplicateCitations ==
    /\ pc = "dedup"
    /\ unique_docs' = Deduplicate(citations)[1]
    /\ doc_key_map' = Deduplicate(citations)[2]
    /\ pc' = "rewrite"
    /\ UNCHANGED <<env, req, message, chat_history, sanitized_history, calls,
                   ai_response, raw_reply, assistant_reply, citations,
                   confidence, rewritten_reply, references, orphaned_reply,
                   responses>>

\* line 183
RewriteMarkers ==
    /\ pc = "rewrite"
    /\ assistant_reply' = replace_citations(assistant_reply, citations,
                                            doc_key_map)
    /\ rewritten_reply' = assistant_reply'
    /\ pc' = "references"
    /\ UNCHANGED <<env, req, message, chat_history, sanitized_history, calls,
                   ai_response, raw_reply, citations, confidence, unique_docs,
                   doc_key_map, references, orphaned_reply, responses>>

\* lines 186-201
BuildRefs ==
    /\ pc = "references"
    /\ references' = BuildReferences(unique_docs)
    /\ pc' = "orphans"
    /\ UNCHANGED <<env, req, message, chat_history, sanitized_history, calls,
                   ai_response, raw_reply, assistant_reply, citations,
                   confidence, unique_docs, doc_key_map, rewritten_reply,
                   orphaned_reply, responses>>

\* lines 204-205
RemoveOrphans ==
    /\ pc = "orphans"
    /\ assistant_reply' =
          remove_orphan_citations(assistant_reply,
                                  ValidCitationNumbers(references))
    /\ orphaned_reply' = assistant_reply'
    /\ pc' = "append"
    /\ UNCHANGED <<env, req, message, chat_history, sanitized_history, calls,
                   ai_response, raw_reply, citations, confidence, unique_docs,
                   doc_key_map, rewritten_reply, references, responses>>

\* line 208
AppendLinks ==
    /\ pc = "append"
    /\ \E order \in SortedOrders(UsedRefs(NormalizeAdjacent(assistant_reply))) :
          assistant_reply' =
              AppendReferenceLinks(assistant_reply, unique_docs, order)
    /\ pc' = "respond"
    /\ UNCHANGED <<env, req, message, chat_history, sanitized_history, calls,
                   ai_response, raw_reply, citations, confidence, unique_docs,
                   doc_key_map, rewritten_reply, references, orphaned_reply,
                   responses>>

\* lines 210-221
Respond ==
    /\ pc = "respond"
    /\ Return(AnswerResponse(assistant_reply, sanitized_history, message,
                             references))
    /\ UNCHANGED <<env, req, message, chat_history, sanitized_history, calls,
                   ai_response, raw_reply, assistant_reply, citations,
                   confidence, unique_docs, doc_key_map, rewritten_reply,
                   references, orphaned_reply>>

Reconcile ==
    \/ DeduplicateCitations
    \/ RewriteMarkers
    \/ BuildRefs
    \/ RemoveOrphans
    \/ AppendLinks
    \/ Respond

(***************************************************************************)
(* Requests and the handler's specification.                               *)
(***************************************************************************)
EnvValues == {None, StrV(<<>>), StrV(<<"v">>)}

MessageSamples ==
    {None, StrV(<<>>), IntV(5),
     StrV(<<"H", "i">>), StrV(<<" ", "H", "E", "L", "L", "O", "\n">>), StrV(<<"h", "e", "y">>), StrV(<<"g", "r", "e", "e", "t", "i", "n", "g", "s">>),
     StrV(<<"h", "i", " ", "a", "l", "l">>), StrV(<<"W", "h", "y", "?">>)}

HistoryEntry(dict, role, content, id) ==
    [dict |-> dict, role |-> role, content |-> content, id |-> id]

HistorySamples ==
    {None,
     [t |-> "null"],
     [t |-> "list",
      items |-> <<HistoryEntry(TRUE, StrV(<<"user">>), StrV(<<"q">>), StrV(<<"7">>)),
                  HistoryEntry(FALSE, None, None, None),
                  HistoryEntry(TRUE, StrV(<<"assistant">>), None, None)>>]}

Request(kind, msg, history) ==
    [kind |-> kind, message |-> msg, history |-> history]

Requests ==
    {Request(k, None, None) : k \in {"invalid_json", "array"}}
    \cup {Request("object", m, h) : m \in MessageSamples, h \in HistorySamples}

\* the handler before its first statement
Entry(e, r) ==
    /\ pc = "get_json"
    /\ env = e
    /\ req = r
    /\ message = None
    /\ chat_history = None
    /\ sanitized_history = <<>>
    /\ calls = 0
    /\ ai_response = None
    /\ raw_reply = <<>>
    /\ assistant_reply = <<>>
    /\ citations = <<>>
    /\ confidence = None
    /\ unique_docs = <<>>
    /\ doc_key_map = EmptyMap
    /\ rewritten_reply = <<>>
    /\ references = <<>>
    /\ orphaned_reply = <<>>
    /\ responses = <<>>

Init ==
    \E e \in [REQUIRED_ENV_VARS -> EnvValues], r \in Requests : Entry(e, r)

Next ==
    \/ GetJson
    \/ CheckMessage
    \/ CheckEnv
    \/ SanitizeHistory
    \/ CheckGreeting
    \/ PostCall
    \/ CheckStatus
    \/ ParseResult
    \/ CheckConfidence
    \/ CheckCitations
    \/ Reconcile

Spec == Init /\ [][Next]_vars

(***************************************************************************)
(* Specifications of the reconciliation alone: the handler has received a  *)
(* well-formed 200 response with a non-empty citation list and stands at   *)
(* line 159.                                                               *)
(***************************************************************************)
FullEnv == [key \in REQUIRED_ENV_VARS |-> StrV(<<"v">>)]

Question == StrV(<<"W", "h", "y", "?">>)

AtReconciliation(content, cits) ==
    /\ pc = "dedup"
    /\ env = FullEnv
    /\ req = Request("object", Question, None)
    /\ message = Question
    /\ chat_history = [t |-> "list", items |-> <<>>]
    /\ sanitized_history = <<>>
    /\ calls = 1
    /\ ai_response = OkResponse(content, [t |-> "list", items |-> cits], None)
    /\ raw_reply = content
    /\ assistant_reply = content
    /\ citations = cits
    /\ confidence = IntV(DefaultConfidence)
    /\ unique_docs = <<>>
    /\ doc_key_map = EmptyMap
    /\ rewritten_reply = <<>>
    /\ references = <<>>
    /\ orphaned_reply = <<>>
    /\ responses = <<>>

\* all sequences over S of length lo..hi
SeqsOf(S, lo, hi) == UNION {[1..n -> S] : n \in lo..hi}

\* every answer text of up to MaxLen characters over brackets and digits,
\* with a citation list of each shape that one or two citations can have:
\* one document, two citations of one document, two documents
MarkerAlphabet == {"[", "]", "0", "1", "2"}

CitationShapes == {<<DocA>>, <<DocA, DocALower>>, <<DocA, DocB>>}

InitReconcile ==
    \E content \in SeqsOf(MarkerAlphabet, 0, MaxLen),
       cits \in CitationShapes :
          AtReconciliation(content, cits)

SpecReconcile == InitReconcile /\ [][Reconcile]_vars

\* every answer text of up to MaxLen characters over brackets and the digits
\* 1..3, with three citations of two documents: the duplicate directly after
\* its first occurrence (3 -> 2, 2 -> 1) and after the other document (3 -> 1)
RewriteAlphabet == {"[", "]", "1", "2", "3"}

RewriteShapes == {<<DocA, DocALower, DocB>>, <<DocA, DocB, DocALower>>}

InitRewrite ==
    \E content \in SeqsOf(RewriteAlphabet, 0, MaxLen),
       cits \in RewriteShapes :
          AtReconciliation(content, cits)

SpecRewrite == InitRewrite /\ [][Reconcile]_vars

\* every list of up to MaxDocs citations over the url and title variants
UrlSamples == {None, StrV(<<>>), StrV(<<"A">>), StrV(<<"a">>)}
TitleSamples == {None, StrV(<<>>), StrV(<<"a">>), StrV(<<"T">>)}

InitDedup ==
    \E content \in {<<"[", "1", "]", "[", "2", "]">>, <<"[", "3", "]", "[", "2", "]", "[", "1", "]">>},
       cits \in SeqsOf({Doc(u, t, None, None, None) :
                            u \in UrlSamples, t \in TitleSamples},
                       1, MaxDocs) :
          AtReconciliation(content, cits)

SpecDedup == InitDedup /\ [][Reconcile]_vars

\* every combination of the three page fields, on a first citation and on a
\* second one of the same or of another document
PageSamples ==
    {None, StrV(<<>>), StrV(<<"1", "2">>), StrV(<<"a", "b">>), StrV(<<"0">>),
     IntV(0), IntV(7)}

InitPages ==
    \E content \in {<<"[", "1", "]", "[", "2", "]">>},
       p \in PageSamples, n \in PageSamples, c \in PageSamples,
       rest \in {<<>>, <<DocA>>} :
          AtReconciliation(content,
                           rest \o <<Doc(StrV(<<"B">>), None, p, n, c)>>)

SpecPages == InitPages /\ [][Reconcile]_vars

(***************************************************************************)
(* Vocabulary of the properties.                                           *)
(***************************************************************************)
\* the DocumentKey of the data model: lowercased url if non-empty, else
\* lowercased title if non-empty, else the sentinel
DocumentKey(doc) ==
    IF doc.url.t = "str" /\ doc.url.s # <<>> THEN ToLower(doc.url.s)
    ELSE IF doc.title.t = "str" /\ doc.title.s # <<>> THEN ToLower(doc.title.s)
    ELSE Sentinel

\* the positions of a citation list at which a DocumentKey occurs first
FirstOccurrences(cits) ==
    {i \in 1..Len(cits) :
        \A j \in 1..(i - 1) : DocumentKey(cits[j]) # DocumentKey(cits[i])}

\* the Reference index owed to the citation at position i: the rank of the
\* first occurrence of its DocumentKey
IndexOfPosition(cits, i) ==
    LET first == CHOOSE f \in FirstOccurrences(cits) :
                    DocumentKey(cits[f]) = DocumentKey(cits[i])
    IN  Cardinality({g \in FirstOccurrences(cits) : g <= first})

\* the reference list has been built in this request
ReferencesBuilt ==
    \/ pc \in {"orphans", "append", "respond"}
    \/ pc = "done" /\ unique_docs # <<>>

\* orphan removal has run in this request
OrphansRemoved ==
    \/ pc \in {"append", "respond"}
    \/ pc = "done" /\ unique_docs # <<>>

\* the request has ended with the reconciled answer
Reconciled == pc = "done" /\ unique_docs # <<>>

\* the answer of the response returned
FinalAnswer == responses[1].body.answer

\* the text before the blank line that starts the footnote block
RECURSIVE BodyOf(_)
BodyOf(text) ==
    IF Len(text) < 2 THEN text
    ELSE IF text[1] = "\n" /\ text[2] = "\n" THEN <<>>
    ELSE <<text[1]>> \o BodyOf(Tail(text))

\* a is a subsequence of b
RECURSIVE IsSubsequence(_, _)
IsSubsequence(a, b) ==
    IF a = <<>> THEN TRUE
    ELSE IF b = <<>> THEN FALSE
    ELSE IF a[1] = b[1] THEN IsSubsequence(Tail(a), Tail(b))
    ELSE IsSubsequence(a, Tail(b))

\* text holds the line "[ds]: #"
HasPlaceholderFootnote(text) ==
    \E i \in 1..Len(text) :
        /\ i + 3 <= Len(text)
        /\ SubSeq(text, i, i + 3) = <<"]", ":", " ", "#">>

\* the markers of the raw answer that name an original citation position,
\* each with the index it must be rewritten to; the others stay as they are
ExpectedRewrite(raw, cits) ==
    LET ds == FindDigits(raw)
        InRange(d) == \E i \in 1..Len(cits) : NatStr(i) = d
        Position(d) == CHOOSE i \in 1..Len(cits) : NatStr(i) = d
    IN  [k \in 1..Len(ds) |->
            IF InRange(ds[k]) THEN NatStr(IndexOfPosition(cits, Position(ds[k])))
            ELSE ds[k]]

\* the rewritten markers alone, in order
RECURSIVE SelectRewritten(_, _, _)
SelectRewritten(raw_ds, expected, k) ==
    IF k > Len(raw_ds) THEN <<>>
    ELSE (IF \E i \in 1..Len(citations) : NatStr(i) = raw_ds[k]
          THEN <<expected[k]>> ELSE <<>>)
         \o SelectRewritten(raw_ds, expected, k + 1)

RewrittenMarkers ==
    SelectRewritten(FindDigits(raw_reply),
                    ExpectedRewrite(raw_reply, citations), 1)

\* the k-th marker of the raw answer is one the rewrite step leaves
\* untouched: its digits are the decimal form of no position 1..len(citations)
Untouched(k) ==
    ~\E i \in 1..Len(citations) : NatStr(i) = FindDigits(raw_reply)[k]

\* the rewritten answer with exactly its untouched markers deleted
UntouchedDeleted ==
    LET ms == FindAll(rewritten_reply, 1)
        repl == [k \in 1..Len(ms) |->
                    IF Untouched(k) THEN <<>>
                    ELSE SubSeq(rewritten_reply, ms[k][1], ms[k][2])]
    IN  Splice(rewritten_reply, ms, repl, 1, 1)

(***************************************************************************)
(* C1: after orphan removal, and in the body of the final answer, every    *)
(* [digits] token has a number in 1..N, N the number of references, and no *)
(* footnote line "[n]: #" is produced.                                     *)
(***************************************************************************)
MarkersValid(text) ==
    \A k \in 1..Len(FindDigits(text)) :
        ToInt(FindDigits(text)[k]) \in 1..Len(references)

\* C1: every marker left by orphan removal and in the final body is a
\* Reference index, and no placeholder footnote is written
C1_SurvivingMarkersAreReferences ==
    /\ OrphansRemoved => MarkersValid(orphaned_reply)
    /\ Reconciled =>
          /\ MarkersValid(BodyOf(FinalAnswer))
          /\ ~HasPlaceholderFootnote(FinalAnswer)

(***************************************************************************)
(* C2: the references hold exactly one entry per distinct DocumentKey, in  *)
(* the order of the keys' first occurrences, and the entry at position i   *)
(* has index i.                                                            *)
(***************************************************************************)
C2_OneReferencePerDocumentKey ==
    ReferencesBuilt =>
        /\ Len(references) =
              Cardinality({DocumentKey(citations[i]) : i \in 1..Len(citations)})
        /\ Len(unique_docs) = Len(references)
        /\ \A i \in 1..Len(references) : references[i].index = i
        /\ \A f \in FirstOccurrences(citations) :
              LET r == IndexOfPosition(citations, f)
              IN  /\ r \in 1..Len(references)
                  /\ unique_docs[r] = citations[f]
                  /\ references[r].title =
                        (IF citations[f].title.t = "none" THEN DefaultTitle
                         ELSE citations[f].title.s)
        /\ Reconciled => responses[1].body.references = references

\* three citations, the third the first again in another case: two references
C2_Witness ==
    /\ Reconciled
    /\ Len(citations) = 3
    /\ citations[1].url = StrV(<<"A">>)
    /\ citations[2].url = None /\ citations[2].title = StrV(<<"T">>)
    /\ citations[3].url = StrV(<<"a">>)
    /\ Len(responses[1].body.references) = 2

(***************************************************************************)
(* C3: every marker [i] of the raw answer with 1 <= i <= len(citations) is *)
(* rewritten, once, to the Reference index of the citation at position i,  *)
(* and the rewritten marker survives into the final answer.                *)
(***************************************************************************)
C3_MarkersRewrittenOnce ==
    /\ pc \in {"references", "orphans", "append", "respond"} \/ Reconciled =>
          FindDigits(rewritten_reply) = ExpectedRewrite(raw_reply, citations)
    /\ OrphansRemoved =>
          IsSubsequence(RewrittenMarkers, FindDigits(orphaned_reply))
    /\ Reconciled =>
          /\ IsSubsequence(RewrittenMarkers, FindDigits(BodyOf(FinalAnswer)))
          /\ \A k \in 1..Len(RewrittenMarkers) :
                \E i \in 1..Len(FinalAnswer) - (Len(RewrittenMarkers[k]) + 3) :
                    SubSeq(FinalAnswer, i, i + Len(RewrittenMarkers[k]) + 3)
                        = <<"\n">> \o Marker(RewrittenMarkers[k]) \o <<":">>

\* citations [A, B, A] with the answer "[1][3]": two [1] markers and the
\* single footnote of A
C3_Witness ==
    /\ Reconciled
    /\ citations = <<DocA, DocB, DocALower>>
    /\ raw_reply = <<"[", "1", "]", "[", "3", "]">>
    /\ FinalAnswer = <<"[", "1", "]", ",", " ", "[", "1", "]", "\n", "\n", "[", "1", "]", ":", " ">> \o HARDCODED_DOCUMENT_URL
                     \o <<"#", "p", "a", "g", "e", "=", "1", "2", "\n">>

(***************************************************************************)
(* C4: after a 200 response the gates come in a fixed order: confidence    *)
(* below 0.5 gives the low-confidence message whatever the citations;      *)
(* otherwise an empty citation list gives the no-relevant-information      *)
(* message; reconciliation runs only when neither gate fired.              *)
(***************************************************************************)
\* the call returned 200 with a body of the expected shape
WellFormed200 ==
    /\ calls = 1
    /\ ai_response # None
    /\ ai_response.status_code = 200
    /\ ai_response.json = "ok"
    /\ ai_response.confidence.t \in {"none", "int"}

UpstreamLow ==
    ai_response.confidence.t = "int"
    /\ ai_response.confidence.n < ConfidenceThreshold

UpstreamNoCitations ==
    \/ ai_response.citations.t = "none"
    \/ ai_response.citations.items = <<>>

CannedResponse(answer) ==
    /\ Len(responses) = 1
    /\ responses[1].status_code = 200
    /\ responses[1].body.answer = answer
    /\ responses[1].body.references = <<>>

\* C4: low confidence first, then the empty citation list, and only then
\* reconciliation
C4_GatesInOrder ==
    /\ pc = "done" /\ WellFormed200 =>
          /\ UpstreamLow => CannedResponse(LowConfidenceAnswer)
          /\ ~UpstreamLow /\ UpstreamNoCitations =>
                CannedResponse(NoCitationsAnswer)
    /\ pc \in {"dedup", "rewrite", "references", "orphans", "append",
               "respond"} \/ Reconciled =>
          WellFormed200 /\ ~UpstreamLow /\ ~UpstreamNoCitations

\* confidence 0.3 with a non-empty citation list: the low-confidence message
C4_Witness ==
    /\ pc = "done"
    /\ WellFormed200
    /\ ai_response.confidence = IntV(30)
    /\ ai_response.citations = [t |-> "list", items |-> <<DocA, DocB, DocALower>>]
    /\ CannedResponse(LowConfidenceAnswer)

(***************************************************************************)
(* C5: with an empty citation list and an answer text that holds markers,  *)
(* the result has references = [] and the service's answer text with every *)
(* marker stripped and no footnote block.                                  *)
(***************************************************************************)
EmptyCitationsWithMarkers ==
    /\ pc = "done"
    /\ WellFormed200
    /\ ai_response.citations = [t |-> "list", items |-> <<>>]
    /\ FindDigits(ai_response.content) # <<>>

\* C5 as stated: the answer is the service's text with its markers stripped
C5_Original_MarkersStripped ==
    EmptyCitationsWithMarkers /\ ~UpstreamLow =>
        /\ Len(responses) = 1
        /\ responses[1].body.references = <<>>
        /\ responses[1].body.answer =
              remove_orphan_citations(ai_response.content, {})

\* C5 as amended: the answer is the canned no-relevant-information message
\* (the low-confidence one under a confidence below 0.5), never the text of
\* the service
C5_CannedAnswerOnEmptyCitations ==
    EmptyCitationsWithMarkers =>
        IF UpstreamLow THEN CannedResponse(LowConfidenceAnswer)
        ELSE CannedResponse(NoCitationsAnswer)

C5_Witness ==
    /\ EmptyCitationsWithMarkers
    /\ ai_response.content = <<"N", "o", " ", "s", "o", "u", "r", "c", "e", "s", " ", "[", "1", "]", ".">>
    /\ ai_response.confidence = None
    /\ CannedResponse(NoCitationsAnswer)

(***************************************************************************)
(* C6: a request whose trimmed, lowercased message is hello, hi, hey or    *)
(* greetings gets the canned greeting with status 200 and references = [], *)
(* and no outbound call is made.                                           *)
(***************************************************************************)
GreetingWords ==
    {<<"h", "e", "l", "l", "o">>, <<"h", "i">>, <<"h", "e", "y">>, <<"g", "r", "e", "e", "t", "i", "n", "g", "s">>}

GreetingRequest ==
    /\ req.kind = "object"
    /\ req.message.t = "str"
    /\ ToLower(Strip(req.message.s)) \in GreetingWords

\* C6 as stated: every greeting gets the canned greeting and no call is made
C6_Original_GreetingAlwaysAnswered ==
    GreetingRequest =>
        /\ calls = 0
        /\ pc = "done" => CannedResponse(GreetingAnswer)

\* C6 as amended: provided the five settings are present and the history
\* is absent or a list
C6_GreetingAnsweredWhenConfigured ==
    GreetingRequest =>
        /\ calls = 0
        /\ pc = "done" /\ (\A key \in REQUIRED_ENV_VARS : Truthy(env[key]))
              /\ req.history.t \in {"none", "list"} =>
                 CannedResponse(GreetingAnswer)

C6_Witness ==
    /\ pc = "done"
    /\ req.kind = "object"
    /\ req.message = StrV(<<" ", "H", "E", "L", "L", "O", "\n">>)
    /\ calls = 0
    /\ CannedResponse(GreetingAnswer)

(***************************************************************************)
(* C7: if any required setting is absent, every request, whatever its      *)
(* body, ends with the configuration error of status 500 and no outbound   *)
(* call.                                                                   *)
(***************************************************************************)
SettingAbsent == \E key \in REQUIRED_ENV_VARS : ~Truthy(env[key])

ConfigurationError ==
    /\ Len(responses) = 1
    /\ responses[1].status_code = 500
    /\ responses[1].body.error = "Missing environment variable(s)"

\* C7 as stated: with a setting absent every request ends with the
\* configuration error
C7_Original_ConfigurationErrorForEveryRequest ==
    SettingAbsent =>
        /\ calls = 0
        /\ pc = "done" /\ req.kind = "object" => ConfigurationError

\* C7 as amended: for every request with a non-empty message; a request
\* without one ends with status 400
C7_ConfigurationErrorAfterMessageCheck ==
    SettingAbsent =>
        /\ calls = 0
        /\ pc = "done" /\ req.kind = "object" =>
              IF Truthy(req.message) THEN ConfigurationError
              ELSE /\ Len(responses) = 1
                   /\ responses[1].status_code = 400
                   /\ responses[1].body.error = "Missing 'message' in request body"

\* only SEARCH_KEY absent, a greeting: the configuration error
C7_Witness ==
    /\ pc = "done"
    /\ \A key \in REQUIRED_ENV_VARS : Truthy(env[key]) <=> key # "SEARCH_KEY"
    /\ req.kind = "object"
    /\ req.message = StrV(<<"H", "i">>)
    /\ ConfigurationError

(***************************************************************************)
(* C8: the outbound call is made at most once; a non-200 status is         *)
(* answered with the upstream status and body, a network error or a        *)
(* malformed 200 response with status 500; the call is never repeated and  *)
(* exactly one JSON response is returned.                                  *)
(***************************************************************************)
ErrorResponse(status_code) ==
    /\ responses[1].status_code = status_code
    /\ "error" \in DOMAIN responses[1].body

\* C8: at most one call, one response, and each failure of the call answered
\* as an error
C8_CallOnceFailureTerminal ==
    /\ calls <= 1
    /\ Len(responses) = (IF pc = "done" THEN 1 ELSE 0)
    /\ \A i \in 1..Len(responses) : responses[i].mimetype = "application/json"
    /\ pc = "done" /\ calls = 1 =>
          /\ ai_response = None => ErrorResponse(500)
          /\ ai_response # None /\ ai_response.status_code # 200 =>
                /\ ErrorResponse(ai_response.status_code)
                /\ responses[1].body.message = ai_response.text
          /\ ai_response # None /\ ai_response.status_code = 200
                /\ ~WellFormed200 => ErrorResponse(500)

\* a 429 of the service, passed on with its body after the one call
C8_Witness ==
    /\ pc = "done"
    /\ calls = 1
    /\ ai_response # None
    /\ ai_response.status_code = 429
    /\ Len(responses) = 1
    /\ responses[1].status_code = 429
    /\ responses[1].body.message = <<"upstream body">>

(***************************************************************************)
(* C9: the url of a Reference is the base URL suffixed with #page={n}, n   *)
(* the first of page, pageNumber, chunk_id that is present and a positive  *)
(* integer string; a present but non-numeric field is treated as absent,   *)
(* so that a later usable field still supplies the page.                   *)
(***************************************************************************)
UsablePage(v) ==
    \/ v.t = "str" /\ StrIsDigit(v.s)
    \/ v.t = "int" /\ v.n > 0

FirstUsablePage(doc) ==
    IF UsablePage(doc.page) THEN doc.page
    ELSE IF UsablePage(doc.pageNumber) THEN doc.pageNumber
    ELSE IF UsablePage(doc.chunk_id) THEN doc.chunk_id
    ELSE None

\* C9: the url of each Reference carries the first usable page field
C9_FirstUsableFieldSuppliesPage ==
    ReferencesBuilt =>
        \A i \in 1..Len(references) :
            LET page == FirstUsablePage(unique_docs[i])
            IN  references[i].url =
                    IF page = None THEN HARDCODED_DOCUMENT_URL
                    ELSE HARDCODED_DOCUMENT_URL \o PageSuffix \o PageStr(page)

(***************************************************************************)
(* C10: every marker of the raw answer that the rewrite step leaves        *)
(* untouched is deleted by orphan removal; none survives because its       *)
(* number coincides with a valid Reference index.                          *)
(***************************************************************************)
C10_UntouchedMarkersDeleted ==
    OrphansRemoved =>
        /\ \A k \in 1..Len(FindDigits(raw_reply)) :
              Untouched(k) =>
                 FindDigits(rewritten_reply)[k]
                    \notin ValidCitationNumbers(references)
        /\ orphaned_reply = UntouchedDeleted

\* two citations of one document, the answer "[01]2": the marker [01] is
\* untouched and deleted, though its number is that of the one reference
C10_Witness ==
    /\ OrphansRemoved
    /\ citations = <<DocA, DocALower>>
    /\ raw_reply = <<"[", "0", "1", "]", "2">>
    /\ rewritten_reply = raw_reply
    /\ orphaned_reply = <<"2">>

====
